---- MODULE Spec2Model ----
(***************************************************************************)
(* Readability analyzer (src/src/analyzer.py, metrics.py, utils.py).       *)
(*                                                                         *)
(* Text is a sequence of characters; a character is a one-character string *)
(* for ASCII and a named token for a Cyrillic letter ("ru_a" is the        *)
(* lowercase Cyrillic a, "RU_A" the uppercase one).  Scores are integers   *)
(* in hundredths (8979 is 89.79): the formulas are evaluated exactly over  *)
(* the rationals and rounded to two decimals, as round(x, 2) does.  Binary *)
(* floating point error is not modelled: where the exact value lies        *)
(* halfway between two hundredths the code returns the neighbour its float *)
(* error selects, the model the even one, so the two can differ by 0.01    *)
(* there.  The square root of smog_index is truncated to three decimals.   *)
(***************************************************************************)
EXTENDS Integers, Sequences, FiniteSets, TLC

None == "None"

VARIABLES
    language,        \* TextAnalyzer.language
    _syllable_func,  \* TextAnalyzer._syllable_func
    frames,          \* the locals of each analyze call, with its position
    prev,            \* what the caller kept of the previous analyze call
    batch,           \* the arguments and the return value of compare_texts
    file_call,       \* the argument and the outcome of analyze_file
    c_score,         \* argument of _get_difficulty_level
    c_label,         \* its return value
    m_args,          \* arguments of the metric calculators
    m_out,           \* the calculator applied and its return value
    s_word,          \* argument of the syllable estimators
    s_out,           \* the estimator applied and its return value
    u_text,          \* argument of the functions of utils.py
    u_out,           \* the function applied and its return value
    r_args,          \* arguments of _generate_recommendations
    r_out,           \* its return value
    p_args,          \* arguments of two calls of flesch_reading_ease
    p_out            \* their return values

vars == <<language, _syllable_func, frames, prev, batch, file_call, c_score, c_label, m_args,
          m_out, s_word, s_out, u_text, u_out, r_args, r_out, p_args, p_out>>

analyzerVars == <<language, _syllable_func, frames, prev, batch, file_call>>

classifyVars == <<c_score, c_label>>

metricVars == <<m_args, m_out>>

syllableVars == <<s_word, s_out>>

utilVars == <<u_text, u_out>>

recommendVars == <<r_args, r_out>>

pairVars == <<p_args, p_out>>

\* the variables of the functions checked on their own
pureVars == <<classifyVars, metricVars, syllableVars, utilVars, recommendVars, pairVars>>

(***************************************************************************)
(* Character classes: the ranges of the regular expressions in utils.py,   *)
(* str.lower(), str.strip() and the \s, \w, \b classes of re.              *)
(***************************************************************************)
LatinLower == <<"a", "b", "c", "d", "e", "f", "g", "h", "i", "j", "k", "l", "m",
                "n", "o", "p", "q", "r", "s", "t", "u", "v", "w", "x", "y", "z">>

LatinUpper == <<"A", "B", "C", "D", "E", "F", "G", "H", "I", "J", "K", "L", "M",
                "N", "O", "P", "Q", "R", "S", "T", "U", "V", "W", "X", "Y", "Z">>

CyrLower == <<"ru_a", "ru_b", "ru_v", "ru_g", "ru_d", "ru_e", "ru_yo", "ru_zh",
              "ru_z", "ru_i", "ru_j", "ru_k", "ru_l", "ru_m", "ru_n", "ru_o",
              "ru_p", "ru_r", "ru_s", "ru_t", "ru_u", "ru_f", "ru_h", "ru_c",
              "ru_ch", "ru_sh", "ru_shch", "ru_hard", "ru_y", "ru_soft",
              "ru_eh", "ru_yu", "ru_ya">>

CyrUpper == <<"RU_A", "RU_B", "RU_V", "RU_G", "RU_D", "RU_E", "RU_YO", "RU_ZH",
              "RU_Z", "RU_I", "RU_J", "RU_K", "RU_L", "RU_M", "RU_N", "RU_O",
              "RU_P", "RU_R", "RU_S", "RU_T", "RU_U", "RU_F", "RU_H", "RU_C",
              "RU_CH", "RU_SH", "RU_SHCH", "RU_HARD", "RU_Y", "RU_SOFT",
              "RU_EH", "RU_YU", "RU_YA">>

Range(s) == {s[i] : i \in 1..Len(s)}

LatinLetters == Range(LatinLower) \cup Range(LatinUpper)

CyrLetters == Range(CyrLower) \cup Range(CyrUpper)

Digits == {"0", "1", "2", "3", "4", "5", "6", "7", "8", "9"}

Whitespace == {" ", "\t", "\n", "\r"}

IsSpace(ch) == ch \in Whitespace

\* \w of re on str: letters, digits and the underscore
WordChars == LatinLetters \cup CyrLetters \cup Digits \cup {"_"}

IsWordChar(ch) == ch \in WordChars

\* [a-zA-Z] followed by the Cyrillic range of the word pattern
IsLetter(ch) == ch \in LatinLetters \cup CyrLetters

IndexIn(s, ch) == CHOOSE i \in 1..Len(s) : s[i] = ch

\* str.lower() on one character
LowerChar(ch) ==
    IF ch \in Range(LatinUpper) THEN LatinLower[IndexIn(LatinUpper, ch)]
    ELSE IF ch \in Range(CyrUpper) THEN CyrLower[IndexIn(CyrUpper, ch)]
    ELSE ch

\* str.lower()
Lower(s) == [i \in 1..Len(s) |-> LowerChar(s[i])]

Minimum(S) == CHOOSE j \in S : \A k \in S : j <= k

Maximum(S) == CHOOSE j \in S : \A k \in S : j >= k

\* the last index of the run of characters of a class that starts at j
RunEnd(s, j, class) ==
    Minimum({e \in j..Len(s) : e = Len(s) \/ s[e + 1] \notin class})

\* str.strip(): from the first to the last character that is not whitespace
Strip(s) ==
    LET kept == {i \in 1..Len(s) : ~IsSpace(s[i])}
    IN IF kept = {} THEN <<>> ELSE SubSeq(s, Minimum(kept), Maximum(kept))

\* s.startswith(p) at offset i (1-based)
StartsWithAt(s, i, p) ==
    /\ i + Len(p) - 1 <= Len(s)
    /\ \A k \in 1..Len(p) : s[i + k - 1] = p[k]

\* s.endswith(p)
EndsWith(s, p) == Len(p) <= Len(s) /\ StartsWithAt(s, Len(s) - Len(p) + 1, p)

\* the text from i on, with the next occurrence found from there replaced
RECURSIVE ReplaceFrom(_, _, _, _)
ReplaceFrom(s, i, old, new) ==
    LET found == {j \in i..Len(s) : StartsWithAt(s, j, old)}
    IN IF found = {} THEN SubSeq(s, i, Len(s))
       ELSE SubSeq(s, i, Minimum(found) - 1) \o new
            \o ReplaceFrom(s, Minimum(found) + Len(old), old, new)

\* str.replace(old, new) for a non-empty old: leftmost non-overlapping occurrences
Replace(s, old, new) == ReplaceFrom(s, 1, old, new)

RECURSIVE SumSeq(_)
SumSeq(s) == IF s = <<>> THEN 0 ELSE Head(s) + SumSeq(Tail(s))

Max(a, b) == IF a >= b THEN a ELSE b

Min(a, b) == IF a <= b THEN a ELSE b

(***************************************************************************)
(* metrics.py: syllable estimators                                         *)
(***************************************************************************)
EnVowels == {"a", "e", "i", "o", "u", "y"}

RuVowels == {"ru_a", "ru_e", "ru_yo", "ru_i", "ru_o", "ru_u", "ru_y", "ru_eh",
             "ru_yu", "ru_ya"}

\* the for loop of count_syllables: one per vowel that follows a non-vowel
VowelRuns(w) ==
    Cardinality({i \in 1..Len(w) :
                    /\ w[i] \in EnVowels
                    /\ (i = 1 \/ w[i - 1] \notin EnVowels)})

\* the silent-e correction: word.endswith('e') and count > 1
SilentE(w, count) == IF EndsWith(w, <<"e">>) /\ count > 1 THEN count - 1 ELSE count

\* the 'le' correction without the test of word[-3]
LeEndingAfterAnyLetter(w, count) ==
    IF EndsWith(w, <<"l", "e">>) /\ Len(w) > 2 THEN count + 1 ELSE count

\* the 'le' correction: endswith('le'), len > 2, word[-3] not a vowel
LeEnding(w, count) ==
    IF EndsWith(w, <<"l", "e">>) /\ Len(w) > 2 /\ w[Len(w) - 2] \notin EnVowels
    THEN count + 1 ELSE count

\* max(1, count) dropped
FloorOneDropped(count) == count

\* return max(1, count)
FloorOne(count) == Max(1, count)

count_syllables(word) ==
    LET w == Strip(Lower(word))
    IN IF w = <<>> THEN 0
       ELSE FloorOne(LeEnding(w, SilentE(w, VowelRuns(w))))

count_syllables_ru(word) ==
    LET w == Strip(Lower(word))
    IN IF w = <<>> THEN 0
       ELSE FloorOne(Cardinality({i \in 1..Len(w) : w[i] \in RuVowels}))

\* the syllable function a name stands for
ApplySyllableFunc(f, word) ==
    IF f = "count_syllables_ru" THEN count_syllables_ru(word) ELSE count_syllables(word)

(***************************************************************************)
(* utils.py: tokenizers, cleaning, language detection                      *)
(***************************************************************************)
abbreviations ==
    << <<"M", "r", ".">>, <<"M", "r", "s", ".">>, <<"D", "r", ".">>,
       <<"P", "r", "o", "f", ".">>, <<"J", "r", ".">>, <<"S", "r", ".">>,
       <<"v", "s", ".">>, <<"e", "t", "c", ".">>, <<"e", ".", "g", ".">>,
       <<"i", ".", "e", ".">>, <<"ru_t", ".", "ru_d", ".">>,
       <<"ru_t", ".", "ru_p", ".">>, <<"ru_d", "ru_r", ".">>,
       <<"ru_p", "ru_r", ".">>, <<"ru_g", ".">>, <<"ru_g", "ru_g", ".">> >>

DOT == <<"<", "D", "O", "T", ">">>

\* the loop over abbreviations: each replace works on the output of the last
RECURSIVE ProtectFrom(_, _)
ProtectFrom(s, k) ==
    IF k > Len(abbreviations) THEN s
    ELSE ProtectFrom(Replace(s, abbreviations[k],
                             Replace(abbreviations[k], <<".">>, DOT)), k + 1)

Protect(s) == ProtectFrom(s, 1)

SentenceEnd == {".", "!", "?"}

\* re.split(r'[.!?]+', s): the pieces between maximal runs of terminators,
\* empty pieces included
IsSentenceEnd(ch) == ch \in SentenceEnd

RECURSIVE ReSplitFrom(_, _)
ReSplitFrom(s, i) ==
    LET found == {j \in i..Len(s) : IsSentenceEnd(s[j])}
    IN IF found = {} THEN <<SubSeq(s, i, Len(s))>>
       ELSE <<SubSeq(s, i, Minimum(found) - 1)>>
            \o ReSplitFrom(s, RunEnd(s, Minimum(found), SentenceEnd) + 1)

\* the pieces that a terminator ends: what follows the last one is dropped
ReSplitDroppingTail(s) == SubSeq(ReSplitFrom(s, 1), 1, Len(ReSplitFrom(s, 1)) - 1)

ReSplit(s) == ReSplitFrom(s, 1)

\* the result loop: restore the periods, strip, keep the non-empty ones
RECURSIVE RestoreAndKeep(_)
RestoreAndKeep(pieces) ==
    IF pieces = <<>> THEN <<>>
    ELSE LET p == Strip(Replace(Head(pieces), DOT, <<".">>))
         IN (IF p # <<>> THEN <<p>> ELSE <<>>) \o RestoreAndKeep(Tail(pieces))

tokenize_sentences(text) ==
    IF text = <<>> THEN <<>> ELSE RestoreAndKeep(ReSplit(Protect(text)))

\* re.findall(r'\b[letters]+\b', s): a match starts and ends at a \b, so it is
\* a maximal run of \w characters that holds letters only
RECURSIVE FindWordsFrom(_, _)
FindWordsFrom(s, i) ==
    LET found == {j \in i..Len(s) : IsWordChar(s[j])}
    IN IF found = {} THEN <<>>
       ELSE LET j == Minimum(found)
                e == RunEnd(s, j, WordChars)
            IN (IF \A k \in j..e : IsLetter(s[k]) THEN <<SubSeq(s, j, e)>> ELSE <<>>)
               \o FindWordsFrom(s, e + 1)

\* the words found in the text as it is, text.lower() left out
TokenizeWordsAsWritten(text) ==
    IF text = <<>> THEN <<>> ELSE FindWordsFrom(text, 1)

tokenize_words(text) ==
    IF text = <<>> THEN <<>> ELSE FindWordsFrom(Lower(text), 1)

count_characters(words) == SumSeq([i \in 1..Len(words) |-> Len(words[i])])

\* re.sub(r'\s+', ' ', text): every maximal whitespace run becomes one space
RECURSIVE CollapseFrom(_, _)
CollapseFrom(s, i) ==
    LET found == {j \in i..Len(s) : IsSpace(s[j])}
    IN IF found = {} THEN SubSeq(s, i, Len(s))
       ELSE SubSeq(s, i, Minimum(found) - 1) \o <<" ">>
            \o CollapseFrom(s, RunEnd(s, Minimum(found), Whitespace) + 1)

clean_text(text) == IF text = <<>> THEN <<>> ELSE Strip(CollapseFrom(text, 1))

CountIn(s, set) == Cardinality({i \in 1..Len(s) : s[i] \in set})

\* 'ru' if russian_chars >= english_chars: a tie resolved the other way
DetectLanguageTieRu(text) ==
    IF text = <<>> THEN "en"
    ELSE IF CountIn(text, CyrLetters) >= CountIn(text, LatinLetters) THEN "ru"
         ELSE "en"

detect_language(text) ==
    IF text = <<>> THEN "en"
    ELSE IF CountIn(text, CyrLetters) > CountIn(text, LatinLetters) THEN "ru"
         ELSE "en"

(***************************************************************************)
(* metrics.py: the readability formulas, in hundredths                     *)
(***************************************************************************)
\* what a call hands back: the value returned or the exception raised
Returned(v) == <<"returned", v>>

ZeroDivisionError == <<"raised", "ZeroDivisionError">>

ValueOf(r) == r[2]

\* the upper clamp of the Flesch score, min(100, score), in hundredths
FLESCH_MAX == 10000

\* round(n / d, 0) for d > 0, ties to the even neighbour
RoundHalfEven(n, d) ==
    LET q == n \div d
        r == n % d
    IN IF 2 * r < d THEN q
       ELSE IF 2 * r > d THEN q + 1
       ELSE IF q % 2 = 0 THEN q ELSE q + 1

\* round(a / b, 2) for a / b = n / d hundredths: the division raises on zero
RoundDiv(n, d) == IF d = 0 THEN ZeroDivisionError ELSE Returned(RoundHalfEven(n, d))

\* round(x, 2): the clamp max(0, x) left out
NoClamp(n, d) == RoundDiv(n, d)

\* round(max(0, x), 2) for x = n / d
ClampLow(n, d) ==
    IF d = 0 THEN ZeroDivisionError
    ELSE IF n < 0 THEN Returned(0) ELSE Returned(RoundHalfEven(n, d))

\* round(max(0, min(100, x)), 2) for x = n / d
ClampBoth(n, d) ==
    IF d = 0 THEN ZeroDivisionError
    ELSE IF n < 0 THEN Returned(0)
    ELSE IF n > FLESCH_MAX * d THEN Returned(FLESCH_MAX)
    ELSE Returned(RoundHalfEven(n, d))

\* 206.835 - 1.015 * (words / sentences) - 84.6 * (syllables / words), times 100,
\* over the common denominator 10 * sentences * words
\* the sentence-length term added instead of subtracted
FleschScoreLengthAdded(total_words, total_sentences, total_syllables) ==
    ClampBoth(206835 * total_sentences * total_words
                  + 1015 * total_words * total_words
                  - 84600 * total_syllables * total_sentences,
              10 * total_sentences * total_words)

FleschScore(total_words, total_sentences, total_syllables) ==
    ClampBoth(206835 * total_sentences * total_words
                  - 1015 * total_words * total_words
                  - 84600 * total_syllables * total_sentences,
              10 * total_sentences * total_words)

\* the guard of flesch_reading_ease testing the words only
FleschGuardWordsOnly(total_words, total_sentences) == total_words = 0

\* if total_words == 0 or total_sentences == 0
FleschGuard(total_words, total_sentences) == total_words = 0 \/ total_sentences = 0

flesch_reading_ease(total_words, total_sentences, total_syllables) ==
    IF FleschGuard(total_words, total_sentences) THEN Returned(0)
    ELSE FleschScore(total_words, total_sentences, total_syllables)

\* 0.39 * (words / sentences) + 11.8 * (syllables / words) - 15.59
flesch_kincaid_grade(total_words, total_sentences, total_syllables) ==
    IF total_words = 0 \/ total_sentences = 0 THEN Returned(0)
    ELSE ClampLow(39 * total_words * total_words
                      + 1180 * total_syllables * total_sentences
                      - 1559 * total_sentences * total_words,
                  total_sentences * total_words)

\* L = chars / words * 100, S = sentences / words * 100,
\* 0.0588 * L - 0.296 * S - 15.8; only the words are guarded
coleman_liau_index(total_chars, total_words, total_sentences) ==
    IF total_words = 0 THEN Returned(0)
    ELSE ClampLow(588 * total_chars - 2960 * total_sentences - 1580 * total_words,
                  total_words)

\* 4.71 * (chars / words) + 0.5 * (words / sentences) - 21.43
automated_readability_index(total_chars, total_words, total_sentences) ==
    IF total_words = 0 \/ total_sentences = 0 THEN Returned(0)
    ELSE ClampLow(471 * total_chars * total_sentences
                      + 50 * total_words * total_words
                      - 2143 * total_words * total_sentences,
                  total_words * total_sentences)

\* the largest r in lo..hi with r * r <= x
RECURSIVE ISqrtIn(_, _, _)
ISqrtIn(x, lo, hi) ==
    IF lo >= hi THEN lo
    ELSE LET mid == (lo + hi + 1) \div 2
         IN IF mid * mid <= x THEN ISqrtIn(x, mid, hi) ELSE ISqrtIn(x, lo, mid - 1)

\* math.sqrt(polysyllables * (30 / sentences)) in thousandths, truncated
SqrtMilli(total_polysyllables, total_sentences) ==
    ISqrtIn((30000000 * total_polysyllables) \div total_sentences, 0, 46000)

\* 1.0430 * sqrt(polysyllables * (30 / sentences)) + 3.1291
smog_index(total_polysyllables, total_sentences) ==
    IF total_sentences = 0 THEN Returned(0)
    ELSE ClampLow(10430 * SqrtMilli(total_polysyllables, total_sentences) + 31291000,
                  100000)

(***************************************************************************)
(* analyzer.py: classifier and recommendations                             *)
(***************************************************************************)
\* TextAnalyzer.DIFFICULTY_THRESHOLDS, in dict order
DIFFICULTY_THRESHOLDS ==
    << [low |-> 90, high |-> 100, level |-> "very_easy", audience |-> "grades_1_4"],
       [low |-> 70, high |-> 89, level |-> "easy", audience |-> "grades_5_7"],
       [low |-> 50, high |-> 69, level |-> "medium", audience |-> "grades_8_11"],
       [low |-> 30, high |-> 49, level |-> "hard", audience |-> "undergraduate"],
       [low |-> 0, high |-> 29, level |-> "very_hard", audience |-> "graduate"] >>

Undetermined == <<"undetermined", "unknown">>

\* low <= flesch_score <= high
InBand(band, flesch_score) ==
    band.low * 100 <= flesch_score /\ flesch_score <= band.high * 100

RECURSIVE ScanBands(_, _)
ScanBands(k, flesch_score) ==
    IF k > Len(DIFFICULTY_THRESHOLDS) THEN Undetermined
    ELSE IF InBand(DIFFICULTY_THRESHOLDS[k], flesch_score)
         THEN <<DIFFICULTY_THRESHOLDS[k].level, DIFFICULTY_THRESHOLDS[k].audience>>
         ELSE ScanBands(k + 1, flesch_score)

_get_difficulty_level(flesch_score) == ScanBands(1, flesch_score)

\* f"{x:.1f}" of a value in hundredths: tenths
Fmt1(x) == RoundHalfEven(x, 10)

\* the list of the previous result used again
NewListShared == IF prev = <<>> \/ prev[2][1] # "result" THEN <<>>
                 ELSE prev[2][2].recommendations

\* recommendations = []
NewList == <<>>

\* the sentence-length check with the softer message from 20 up
SentenceLengthRuleFrom20(recs, avg_sentence_length) ==
    IF avg_sentence_length > 2500
    THEN Append(recs, <<"shorten_sentences", Fmt1(avg_sentence_length)>>)
    ELSE IF avg_sentence_length >= 2000 THEN Append(recs, <<"sentences_longish">>)
    ELSE recs

\* if avg_sentence_length > 25: ... elif avg_sentence_length > 20: ...
SentenceLengthRule(recs, avg_sentence_length) ==
    IF avg_sentence_length > 2500
    THEN Append(recs, <<"shorten_sentences", Fmt1(avg_sentence_length)>>)
    ELSE IF avg_sentence_length > 2000 THEN Append(recs, <<"sentences_longish">>)
    ELSE recs

\* the word-length check with 'if' for 'elif': both messages above 7
WordLengthRuleBothMessages(recs, avg_word_length) ==
    LET strong == IF avg_word_length > 700
                  THEN Append(recs, <<"simplify_vocabulary", Fmt1(avg_word_length)>>)
                  ELSE recs
    IN IF avg_word_length > 600 THEN Append(strong, <<"shorter_words">>) ELSE strong

\* if avg_word_length > 7: ... elif avg_word_length > 6: ...
WordLengthRule(recs, avg_word_length) ==
    IF avg_word_length > 700
    THEN Append(recs, <<"simplify_vocabulary", Fmt1(avg_word_length)>>)
    ELSE IF avg_word_length > 600 THEN Append(recs, <<"shorter_words">>)
    ELSE recs

\* the Flesch check with the note up to and including 50
FleschRuleUpTo50(recs, flesch_score) ==
    IF flesch_score < 3000 THEN Append(recs, <<"very_hard_text">>)
    ELSE IF flesch_score <= 5000 THEN Append(recs, <<"prepared_audience">>)
    ELSE recs

\* if flesch_score < 30: ... elif flesch_score < 50: ...
FleschRule(recs, flesch_score) ==
    IF flesch_score < 3000 THEN Append(recs, <<"very_hard_text">>)
    ELSE IF flesch_score < 5000 THEN Append(recs, <<"prepared_audience">>)
    ELSE recs

\* if word_count < 100: ...
ShortTextRule(recs, word_count) ==
    IF word_count < 100 THEN Append(recs, <<"short_text">>) ELSE recs

\* the positive message appended whatever the list holds
NoProblemsRuleUnconditional(recs) == Append(recs, <<"well_balanced">>)

\* if not recommendations: ...
NoProblemsRule(recs) == IF recs = <<>> THEN Append(recs, <<"well_balanced">>) ELSE recs

_generate_recommendations(avg_sentence_length, avg_word_length, flesch_score, word_count) ==
    LET r1 == SentenceLengthRule(NewList, avg_sentence_length)
        r2 == WordLengthRule(r1, avg_word_length)
        r3 == FleschRule(r2, flesch_score)
        r4 == ShortTextRule(r3, word_count)
    IN NoProblemsRule(r4)

(***************************************************************************)
(* analyzer.py: TextAnalyzer.analyze, one action per statement group       *)
(***************************************************************************)
MIN_WORDS == 10

MIN_SENTENCES == 1

Calls == {"c1", "c2"}

IdleFrame ==
    [pc |-> "idle", arg |-> <<>>, text |-> <<>>, sentences |-> <<>>, words |-> <<>>,
     syllable_counter |-> None, total_chars |-> 0, total_syllables |-> 0,
     total_polysyllables |-> 0, word_count |-> 0, sentence_count |-> 0,
     avg_word_length |-> 0, avg_sentence_length |-> 0, flesch |-> 0,
     fk_grade |-> 0, coleman |-> 0, ari |-> 0, difficulty |-> None,
     audience |-> None, recommendations |-> <<>>, result |-> <<>>,
     error |-> <<>>, trace |-> <<>>]

\* a frame advanced to the next statement, with the statements run appended
Step(f, next, events) == [f EXCEPT !.pc = next, !.trace = f.trace \o events]

Raise(f, err, events) ==
    [f EXCEPT !.pc = "raised", !.error = err, !.trace = f.trace \o events]

\* __init__: the estimator fixed by the configured language
InitSyllableFunc(lang) ==
    IF lang = "ru" THEN "count_syllables_ru"
    ELSE IF lang = "en" THEN "count_syllables"
    ELSE None

\* not text, the strip() test left out
IsBlankNoStrip(text) == text = <<>>

\* not text or not text.strip()
IsBlank(text) == text = <<>> \/ Strip(text) = <<>>

\* len(words) <= self.MIN_WORDS
TooShortOffByOne(words) == Len(words) <= MIN_WORDS

\* len(words) < self.MIN_WORDS
TooShort(words) == Len(words) < MIN_WORDS

TooFewSentences(sentences) == Len(sentences) < MIN_SENTENCES

EmptyTextError == <<"ValueError", "empty_text">>

\* the message carries len(words) and MIN_WORDS
TooShortError(words) == <<"ValueError", "too_short", Len(words), MIN_WORDS>>

SentencesError == <<"ValueError", "too_few_sentences", MIN_SENTENCES>>

_get_syllable_counter(sf, text) ==
    IF sf # None THEN sf
    ELSE IF detect_language(text) = "ru" THEN "count_syllables_ru"
         ELSE "count_syllables"

_count_total_syllables(words, f) ==
    SumSeq([i \in 1..Len(words) |-> ApplySyllableFunc(f, words[i])])

_count_polysyllables(words, f) ==
    Cardinality({i \in 1..Len(words) : ApplySyllableFunc(f, words[i]) >= 3})

\* ReadabilityResult(...)
MakeResult(f) ==
    [text_length |-> Len(f.text), word_count |-> f.word_count,
     sentence_count |-> f.sentence_count, avg_word_length |-> f.avg_word_length,
     avg_sentence_length |-> f.avg_sentence_length, flesch_score |-> f.flesch,
     flesch_kincaid |-> f.fk_grade, coleman_liau |-> f.coleman, ari |-> f.ari,
     difficulty_level |-> f.difficulty, target_audience |-> f.audience,
     recommendations |-> f.recommendations]

\* the statements of analyze, as functions of the frame
DoValidate(f) ==
    IF IsBlank(f.arg) THEN Raise(f, EmptyTextError, <<"validate_text">>)
    ELSE Step(f, "clean", <<"validate_text">>)

DoClean(f) == [Step(f, "tokenize", <<"clean_text">>) EXCEPT !.text = clean_text(f.text)]

\* the tokenizing statements followed at once by the syllable count
DoTokenizeThenCount(f) ==
    [Step(f, "check_words",
          <<"tokenize_sentences", "tokenize_words", "_count_total_syllables">>)
        EXCEPT !.sentences = tokenize_sentences(f.text),
               !.words = tokenize_words(f.text),
               !.total_syllables =
                    _count_total_syllables(tokenize_words(f.text), "count_syllables")]

DoTokenize(f) ==
    [Step(f, "check_words", <<"tokenize_sentences", "tokenize_words">>)
        EXCEPT !.sentences = tokenize_sentences(f.text),
               !.words = tokenize_words(f.text)]

DoCheckWords(f) ==
    IF TooShort(f.words) THEN Raise(f, TooShortError(f.words), <<"check_words">>)
    ELSE Step(f, "check_sentences", <<"check_words">>)

DoCheckSentences(f) ==
    IF TooFewSentences(f.sentences) THEN Raise(f, SentencesError, <<"check_sentences">>)
    ELSE Step(f, "syllable_counter", <<"check_sentences">>)

DoSyllableCounter(f, sf) ==
    [Step(f, "counts", <<"_get_syllable_counter">>)
        EXCEPT !.syllable_counter = _get_syllable_counter(sf, f.text)]

\* the polysyllables counted with count_syllables whatever the estimator chosen
DoCountsMixingEstimators(f) ==
    [Step(f, "metrics",
          <<"count_characters", "_count_total_syllables", "_count_polysyllables">>)
        EXCEPT !.total_chars = count_characters(f.words),
               !.total_syllables = _count_total_syllables(f.words, f.syllable_counter),
               !.total_polysyllables = _count_polysyllables(f.words, "count_syllables"),
               !.word_count = Len(f.words),
               !.sentence_count = Len(f.sentences),
               !.avg_word_length =
                    ValueOf(RoundDiv(100 * count_characters(f.words), Len(f.words))),
               !.avg_sentence_length =
                    ValueOf(RoundDiv(100 * Len(f.words), Len(f.sentences)))]

DoCounts(f) ==
    [Step(f, "metrics",
          <<"count_characters", "_count_total_syllables", "_count_polysyllables">>)
        EXCEPT !.total_chars = count_characters(f.words),
               !.total_syllables = _count_total_syllables(f.words, f.syllable_counter),
               !.total_polysyllables = _count_polysyllables(f.words, f.syllable_counter),
               !.word_count = Len(f.words),
               !.sentence_count = Len(f.sentences),
               !.avg_word_length =
                    ValueOf(RoundDiv(100 * count_characters(f.words), Len(f.words))),
               !.avg_sentence_length =
                    ValueOf(RoundDiv(100 * Len(f.words), Len(f.sentences)))]

DoMetrics(f) ==
    [Step(f, "classify",
          <<"flesch_reading_ease", "flesch_kincaid_grade", "coleman_liau_index",
            "automated_readability_index">>)
        EXCEPT !.flesch = ValueOf(flesch_reading_ease(f.word_count, f.sentence_count,
                                                      f.total_syllables)),
               !.fk_grade = ValueOf(flesch_kincaid_grade(f.word_count, f.sentence_count,
                                                         f.total_syllables)),
               !.coleman = ValueOf(coleman_liau_index(f.total_chars, f.word_count,
                                                      f.sentence_count)),
               !.ari = ValueOf(automated_readability_index(f.total_chars, f.word_count,
                                                           f.sentence_count))]

DoClassify(f) ==
    [Step(f, "recommend", <<"_get_difficulty_level">>)
        EXCEPT !.difficulty = _get_difficulty_level(f.flesch)[1],
               !.audience = _get_difficulty_level(f.flesch)[2]]

DoRecommend(f) ==
    [Step(f, "return", <<"_generate_recommendations">>)
        EXCEPT !.recommendations =
                    _generate_recommendations(f.avg_sentence_length, f.avg_word_length,
                                              f.flesch, f.word_count)]

DoReturn(f) == [Step(f, "done", <<"ReadabilityResult">>) EXCEPT !.result = <<MakeResult(f)>>]

\* one statement group of analyze, chosen by the position of the call
Advance(f, sf) ==
    CASE f.pc = "validate" -> DoValidate(f)
      [] f.pc = "clean" -> DoClean(f)
      [] f.pc = "tokenize" -> DoTokenize(f)
      [] f.pc = "check_words" -> DoCheckWords(f)
      [] f.pc = "check_sentences" -> DoCheckSentences(f)
      [] f.pc = "syllable_counter" -> DoSyllableCounter(f, sf)
      [] f.pc = "counts" -> DoCounts(f)
      [] f.pc = "metrics" -> DoMetrics(f)
      [] f.pc = "classify" -> DoClassify(f)
      [] f.pc = "recommend" -> DoRecommend(f)
      [] f.pc = "return" -> DoReturn(f)
      [] OTHER -> f

Finished(f) == f.pc \in {"done", "raised"}

EnterFrame(t) == [IdleFrame EXCEPT !.pc = "validate", !.arg = t, !.text = t]

\* analyze run from its first statement to its return or raise
RECURSIVE RunFrame(_, _)
RunFrame(f, sf) == IF Finished(f) THEN f ELSE RunFrame(Advance(f, sf), sf)

\* what the caller of analyze receives: the result or the exception
Outcome(f) == IF f.pc = "done" THEN <<"result", f.result[1]>> ELSE <<"error", f.error>>

analyze(sf, t) == Outcome(RunFrame(EnterFrame(t), sf))

(***************************************************************************)
(* The analyzer as a state machine: calls of analyze and compare_texts     *)
(***************************************************************************)
Languages == {"en", "ru", "auto"}

MaxRepeat == 10

MaxBatch == 2

RECURSIVE Repeat(_, _)
Repeat(unit, k) == IF k = 0 THEN <<>> ELSE unit \o Repeat(unit, k - 1)

\* sample snippets the input texts are made of
Units ==
    { <<"a", " ">>,
      <<"a", "b", "a", " ", "a", " ">>,
      <<"A", "b", ".", " ">>,
      <<"1", ".", " ">>,
      <<" ", "\t">>,
      <<"ru_ya", " ", "ru_m", "ru_o", "ru_l", "ru_o", "ru_k", "ru_o", "\n">>,
      <<"D", "r", ".", " ", "t", "a", "b", "l", "e", "!", " ">>,
      <<"ru_ya", " ", "a", "?", " ">>,
      <<"a", " ", "1", ".", "1", ".", " ">> }

Texts == {Repeat(u, k) : u \in Units, k \in 0..MaxRepeat}

\* the texts compare_texts is called with: accepted, too short, blank
BatchTexts == {Repeat(<<"a", " ">>, MIN_WORDS), <<"a", " ">>, <<" ">>}

SeqsUpTo(S, n) == UNION {[1..k -> S] : k \in 0..n}

\* the names argument: <<"None">>, or <<"list", l>> for a list of any length
\* up to the bound
NameLists ==
    {<<"None">>} \cup {<<"list", [i \in 1..k |-> <<"name", i>>]>> : k \in 0..MaxBatch}

\* analyzer.analyze(t) is entered; calls of one caller follow one another
Call(c, t) ==
    /\ frames[c].pc = "idle"
    /\ batch = <<>>
    /\ file_call = <<>>
    /\ \A d \in Calls : frames[d].pc = "idle"
    /\ frames' = [frames EXCEPT ![c] = EnterFrame(t)]
    /\ UNCHANGED <<language, _syllable_func, prev, batch, file_call>>

StepTo(c, at, f) ==
    /\ frames[c].pc = at
    /\ frames' = [frames EXCEPT ![c] = f]
    /\ UNCHANGED <<language, _syllable_func, prev, batch, file_call>>

Validate(c) == StepTo(c, "validate", DoValidate(frames[c]))

Clean(c) == StepTo(c, "clean", DoClean(frames[c]))

Tokenize(c) == StepTo(c, "tokenize", DoTokenize(frames[c]))

CheckWords(c) == StepTo(c, "check_words", DoCheckWords(frames[c]))

CheckSentences(c) == StepTo(c, "check_sentences", DoCheckSentences(frames[c]))

\* the estimator chosen is kept in self._syllable_func for the calls to come
SyllableCounterCaching(c) ==
    /\ frames[c].pc = "syllable_counter"
    /\ frames' = [frames EXCEPT ![c] = DoSyllableCounter(frames[c], _syllable_func)]
    /\ _syllable_func' = _get_syllable_counter(_syllable_func, frames[c].text)
    /\ UNCHANGED <<language, prev, batch, file_call>>

SyllableCounter(c) ==
    StepTo(c, "syllable_counter", DoSyllableCounter(frames[c], _syllable_func))

\* the counts taken over words kept on the analyzer, where another call that
\* has tokenized its text left its own
CountsOfSharedWords(c) ==
    LET others == {d \in Calls \ {c} : frames[d].words # <<>>}
        seen == IF others = {} THEN frames[c].words
                ELSE frames[CHOOSE d \in others : TRUE].words
    IN StepTo(c, "counts", DoCounts([frames[c] EXCEPT !.words = seen]))

Counts(c) == StepTo(c, "counts", DoCounts(frames[c]))

Metrics(c) == StepTo(c, "metrics", DoMetrics(frames[c]))

Classify(c) == StepTo(c, "classify", DoClassify(frames[c]))

Recommend(c) == StepTo(c, "recommend", DoRecommend(frames[c]))

Return(c) == StepTo(c, "return", DoReturn(frames[c]))

\* the caller keeps the outcome and calls analyze again with the same text
Repeated(c) ==
    /\ Finished(frames[c])
    /\ prev = <<>>
    /\ prev' = <<frames[c].arg, Outcome(frames[c])>>
    /\ frames' = [frames EXCEPT ![c] = EnterFrame(frames[c].arg)]
    /\ UNCHANGED <<language, _syllable_func, batch, file_call>>

\* the caller drops what it holds
Discard(c) ==
    /\ Finished(frames[c])
    /\ frames' = [frames EXCEPT ![c] = IdleFrame]
    /\ prev' = <<>>
    /\ UNCHANGED <<language, _syllable_func, batch, file_call>>

\* format_result_as_dict: flesch_kincaid is not part of the dict
format_result_as_dict(result) ==
    [text_length |-> result.text_length, word_count |-> result.word_count,
     sentence_count |-> result.sentence_count,
     avg_word_length |-> result.avg_word_length,
     avg_sentence_length |-> result.avg_sentence_length,
     metrics |-> [flesch_reading_ease |-> result.flesch_score,
                  coleman_liau_index |-> result.coleman_liau,
                  automated_readability_index |-> result.ari],
     difficulty_level |-> result.difficulty_level,
     target_audience |-> result.target_audience,
     recommendations |-> result.recommendations]

\* names = [f"... {i+1}" for i in range(len(texts))] when None
DefaultNames(texts, names) ==
    IF names[1] = "None" THEN [i \in 1..Len(texts) |-> <<"text", i>>] ELSE names[2]

\* one pass of the loop body: the entry appended for (name, text)
BatchEntry(sf, name, text) ==
    LET o == analyze(sf, text)
    IN IF o[1] = "result"
       THEN <<name, TRUE, format_result_as_dict(o[2])>>
       ELSE <<name, FALSE, o[2]>>

\* for name, text in zip(names, texts): stops at the shorter of the two
ZipLoop(sf, names, texts) ==
    [i \in 1..Min(Len(names), Len(texts)) |-> BatchEntry(sf, names[i], texts[i])]

compare_texts(sf, texts, names) == ZipLoop(sf, DefaultNames(texts, names), texts)

CompareTexts(texts, names) ==
    /\ batch = <<>>
    /\ file_call = <<>>
    /\ \A c \in Calls : frames[c].pc = "idle"
    /\ batch' = <<texts, names, compare_texts(_syllable_func, texts, names)>>
    /\ UNCHANGED <<language, _syllable_func, frames, prev, file_call>>

DiscardBatch ==
    /\ batch # <<>>
    /\ batch' = <<>>
    /\ UNCHANGED <<language, _syllable_func, frames, prev, file_call>>

\* the files analyze_file is called with: a path without a file, or a file
\* with its content
Files == {<<"missing">>} \cup {<<"file", t>> : t \in Texts}

FileNotFoundError == <<"FileNotFoundError">>

\* read_text_file: raises when the path does not exist, else f.read()
read_text_file(file) ==
    IF file[1] = "missing" THEN <<"error", FileNotFoundError>> ELSE <<"text", file[2]>>

\* text = read_text_file(filepath); return self.analyze(text)
analyze_file(sf, file) ==
    LET read == read_text_file(file)
    IN IF read[1] = "error" THEN read ELSE analyze(sf, read[2])

AnalyzeFile(file) ==
    /\ file_call = <<>>
    /\ batch = <<>>
    /\ \A c \in Calls : frames[c].pc = "idle"
    /\ file_call' = <<file, analyze_file(_syllable_func, file)>>
    /\ UNCHANGED <<language, _syllable_func, frames, prev, batch>>

DiscardFile ==
    /\ file_call # <<>>
    /\ file_call' = <<>>
    /\ UNCHANGED <<language, _syllable_func, frames, prev, batch>>

\* no function of utils.py is being applied on its own
UtilsIdle == u_text = <<>> /\ u_out = <<>>

RecommendIdle == r_args = <<>> /\ r_out = <<>>

PairIdle == p_args = <<>> /\ p_out = <<>>

Init ==
    /\ language \in Languages
    /\ _syllable_func = InitSyllableFunc(language)
    /\ frames = [c \in Calls |-> IdleFrame]
    /\ prev = <<>>
    /\ batch = <<>>
    /\ file_call = <<>>
    /\ c_score = 0
    /\ c_label = <<>>
    /\ m_args = <<>>
    /\ m_out = <<>>
    /\ s_word = <<>>
    /\ s_out = <<>>
    /\ UtilsIdle
    /\ RecommendIdle
    /\ PairIdle

Next ==
    \/ \E c \in Calls, t \in Texts : Call(c, t) /\ UNCHANGED pureVars
    \/ \E c \in Calls : Validate(c) /\ UNCHANGED pureVars
    \/ \E c \in Calls : Clean(c) /\ UNCHANGED pureVars
    \/ \E c \in Calls : Tokenize(c) /\ UNCHANGED pureVars
    \/ \E c \in Calls : CheckWords(c) /\ UNCHANGED pureVars
    \/ \E c \in Calls : CheckSentences(c) /\ UNCHANGED pureVars
    \/ \E c \in Calls : SyllableCounter(c) /\ UNCHANGED pureVars
    \/ \E c \in Calls : Counts(c) /\ UNCHANGED pureVars
    \/ \E c \in Calls : Metrics(c) /\ UNCHANGED pureVars
    \/ \E c \in Calls : Classify(c) /\ UNCHANGED pureVars
    \/ \E c \in Calls : Recommend(c) /\ UNCHANGED pureVars
    \/ \E c \in Calls : Return(c) /\ UNCHANGED pureVars
    \/ \E c \in Calls : Repeated(c) /\ UNCHANGED pureVars
    \/ \E c \in Calls : Discard(c) /\ UNCHANGED pureVars
    \/ \E texts \in SeqsUpTo(BatchTexts, MaxBatch), names \in NameLists :
            CompareTexts(texts, names) /\ UNCHANGED pureVars
    \/ DiscardBatch /\ UNCHANGED pureVars
    \/ \E file \in Files : AnalyzeFile(file) /\ UNCHANGED pureVars
    \/ DiscardFile /\ UNCHANGED pureVars

Spec == Init /\ [][Next]_vars

(***************************************************************************)
(* The classifier, the metric calculators and the syllable estimators      *)
(* applied to inputs of their own                                          *)
(***************************************************************************)
MaxCount == 4

MaxWordLen == 4

SylAlphabet == {"a", "e", "y", "l", "b", "A", " ", "ru_a", "ru_b"}

AnalyzerIdle ==
    /\ language = "auto"
    /\ _syllable_func = InitSyllableFunc("auto")
    /\ frames = [c \in Calls |-> IdleFrame]
    /\ prev = <<>>
    /\ batch = <<>>
    /\ file_call = <<>>

InitClassify ==
    /\ AnalyzerIdle
    /\ c_score \in 0..FLESCH_MAX
    /\ c_label = <<>>
    /\ m_args = <<>>
    /\ m_out = <<>>
    /\ s_word = <<>>
    /\ s_out = <<>>
    /\ UtilsIdle
    /\ RecommendIdle
    /\ PairIdle

GetDifficultyLevel ==
    /\ c_label = <<>>
    /\ c_label' = _get_difficulty_level(c_score)
    /\ UNCHANGED <<c_score, analyzerVars, metricVars, syllableVars, utilVars, recommendVars,
                   pairVars>>

NextClassify == GetDifficultyLevel

SpecClassify == InitClassify /\ [][NextClassify]_vars

InitMetrics ==
    /\ AnalyzerIdle
    /\ c_score = 0
    /\ c_label = <<>>
    /\ m_args \in [chars : 0..MaxCount, words : 0..MaxCount, sentences : 0..MaxCount,
                   syllables : 0..MaxCount, polysyllables : 0..MaxCount]
    /\ m_out = <<>>
    /\ s_word = <<>>
    /\ s_out = <<>>
    /\ UtilsIdle
    /\ RecommendIdle
    /\ PairIdle

Applied(name, r) ==
    /\ m_out = <<>>
    /\ m_out' = <<name, r>>
    /\ UNCHANGED <<m_args, analyzerVars, classifyVars, syllableVars, utilVars, recommendVars,
                   pairVars>>

FleschReadingEase ==
    Applied("flesch_reading_ease",
            flesch_reading_ease(m_args.words, m_args.sentences, m_args.syllables))

FleschKincaidGrade ==
    Applied("flesch_kincaid_grade",
            flesch_kincaid_grade(m_args.words, m_args.sentences, m_args.syllables))

ColemanLiauIndex ==
    Applied("coleman_liau_index",
            coleman_liau_index(m_args.chars, m_args.words, m_args.sentences))

AutomatedReadabilityIndex ==
    Applied("automated_readability_index",
            automated_readability_index(m_args.chars, m_args.words, m_args.sentences))

SmogIndex ==
    Applied("smog_index", smog_index(m_args.polysyllables, m_args.sentences))

NextMetrics ==
    \/ FleschReadingEase
    \/ FleschKincaidGrade
    \/ ColemanLiauIndex
    \/ AutomatedReadabilityIndex
    \/ SmogIndex

SpecMetrics == InitMetrics /\ [][NextMetrics]_vars

InitSyllables ==
    /\ AnalyzerIdle
    /\ c_score = 0
    /\ c_label = <<>>
    /\ m_args = <<>>
    /\ m_out = <<>>
    /\ s_word \in SeqsUpTo(SylAlphabet, MaxWordLen)
    /\ s_out = <<>>
    /\ UtilsIdle
    /\ RecommendIdle
    /\ PairIdle

CountSyllables ==
    /\ s_out = <<>>
    /\ s_out' = <<"count_syllables", count_syllables(s_word)>>
    /\ UNCHANGED <<s_word, analyzerVars, classifyVars, metricVars, utilVars, recommendVars,
                   pairVars>>

CountSyllablesRu ==
    /\ s_out = <<>>
    /\ s_out' = <<"count_syllables_ru", count_syllables_ru(s_word)>>
    /\ UNCHANGED <<s_word, analyzerVars, classifyVars, metricVars, utilVars, recommendVars,
                   pairVars>>

NextSyllables == CountSyllables \/ CountSyllablesRu

SpecSyllables == InitSyllables /\ [][NextSyllables]_vars

(***************************************************************************)
(* The functions of utils.py applied to a text on their own                *)
(***************************************************************************)
MaxPieces == 3

\* the pieces the input texts are put together from
Pieces ==
    { <<"a">>, <<"ru_g">>, <<" ">>, <<"\n">>, <<".">>, <<"!">>, <<"1">>, <<"_">>,
      <<"D", "r", ".">>, <<"i", ".">>, <<"e", ".">>, <<"g", ".">> }

RECURSIVE Concat(_)
Concat(ps) == IF ps = <<>> THEN <<>> ELSE Head(ps) \o Concat(Tail(ps))

PieceTexts == {Concat(ps) : ps \in SeqsUpTo(Pieces, MaxPieces)}

InitUtils ==
    /\ AnalyzerIdle
    /\ c_score = 0
    /\ c_label = <<>>
    /\ m_args = <<>>
    /\ m_out = <<>>
    /\ s_word = <<>>
    /\ s_out = <<>>
    /\ u_text \in PieceTexts
    /\ u_out = <<>>
    /\ RecommendIdle
    /\ PairIdle

AppliedToText(name, r) ==
    /\ u_out = <<>>
    /\ u_out' = <<name, r>>
    /\ UNCHANGED <<u_text, analyzerVars, classifyVars, metricVars, syllableVars,
                   recommendVars, pairVars>>

DetectLanguage == AppliedToText("detect_language", detect_language(u_text))

\* text = clean_text(text) of analyze, then _get_syllable_counter(text)
DetectLanguageCleaned ==
    AppliedToText("detect_language_cleaned", detect_language(clean_text(u_text)))

CleanText == AppliedToText("clean_text", clean_text(u_text))

TokenizeSentences == AppliedToText("tokenize_sentences", tokenize_sentences(u_text))

TokenizeWords == AppliedToText("tokenize_words", tokenize_words(u_text))

NextUtils ==
    \/ DetectLanguage
    \/ DetectLanguageCleaned
    \/ CleanText
    \/ TokenizeSentences
    \/ TokenizeWords

SpecUtils == InitUtils /\ [][NextUtils]_vars

(***************************************************************************)
(* Calls of analyze on one analyzer from several threads: a call is        *)
(* entered at any time and the statement groups of the calls in progress   *)
(* interleave in any order                                                 *)
(***************************************************************************)
ConcurrentUnits ==
    { <<"a", " ">>,
      <<"ru_ya", " ", "ru_m", "ru_o", "ru_l", "ru_o", "ru_k", "ru_o", "\n">>,
      <<" ", "\t">> }

\* of each unit, a text analyze refuses and one it accepts
ConcurrentTexts == {Repeat(u, k) : u \in ConcurrentUnits, k \in {1, MIN_WORDS}}

\* a thread enters analyzer.analyze(t), whatever the other calls are doing
Enter(c, t) ==
    /\ frames[c].pc = "idle"
    /\ frames' = [frames EXCEPT ![c] = EnterFrame(t)]
    /\ UNCHANGED <<language, _syllable_func, prev, batch, file_call>>

NextConcurrent ==
    \/ \E c \in Calls, t \in ConcurrentTexts : Enter(c, t) /\ UNCHANGED pureVars
    \/ \E c \in Calls : Validate(c) /\ UNCHANGED pureVars
    \/ \E c \in Calls : Clean(c) /\ UNCHANGED pureVars
    \/ \E c \in Calls : Tokenize(c) /\ UNCHANGED pureVars
    \/ \E c \in Calls : CheckWords(c) /\ UNCHANGED pureVars
    \/ \E c \in Calls : CheckSentences(c) /\ UNCHANGED pureVars
    \/ \E c \in Calls : SyllableCounter(c) /\ UNCHANGED pureVars
    \/ \E c \in Calls : Counts(c) /\ UNCHANGED pureVars
    \/ \E c \in Calls : Metrics(c) /\ UNCHANGED pureVars
    \/ \E c \in Calls : Classify(c) /\ UNCHANGED pureVars
    \/ \E c \in Calls : Recommend(c) /\ UNCHANGED pureVars
    \/ \E c \in Calls : Return(c) /\ UNCHANGED pureVars
    \/ \E c \in Calls : Discard(c) /\ UNCHANGED pureVars

SpecConcurrent == Init /\ [][NextConcurrent]_vars

(***************************************************************************)
(* flesch_reading_ease applied to two inputs of one syllables/words ratio  *)
(***************************************************************************)
\* the valid inputs: at least one word and one sentence
FleschInputs ==
    [words : 1..MaxCount, sentences : 1..MaxCount, syllables : 0..(2 * MaxCount)]

SameSyllableRatio(a, b) == a.syllables * b.words = b.syllables * a.words

\* a.words / a.sentences <= b.words / b.sentences
SentenceLengthLeq(a, b) == a.words * b.sentences <= b.words * a.sentences

InitPair ==
    /\ AnalyzerIdle
    /\ c_score = 0
    /\ c_label = <<>>
    /\ m_args = <<>>
    /\ m_out = <<>>
    /\ s_word = <<>>
    /\ s_out = <<>>
    /\ UtilsIdle
    /\ RecommendIdle
    /\ p_args \in {q \in FleschInputs \X FleschInputs :
                        SameSyllableRatio(q[1], q[2]) /\ SentenceLengthLeq(q[1], q[2])}
    /\ p_out = <<>>

FleschOfFirst ==
    /\ Len(p_out) = 0
    /\ p_out' = <<flesch_reading_ease(p_args[1].words, p_args[1].sentences,
                                      p_args[1].syllables)>>
    /\ UNCHANGED <<p_args, analyzerVars, classifyVars, metricVars, syllableVars, utilVars,
                   recommendVars>>

FleschOfSecond ==
    /\ Len(p_out) = 1
    /\ p_out' = Append(p_out, flesch_reading_ease(p_args[2].words, p_args[2].sentences,
                                                  p_args[2].syllables))
    /\ UNCHANGED <<p_args, analyzerVars, classifyVars, metricVars, syllableVars, utilVars,
                   recommendVars>>

NextPair == FleschOfFirst \/ FleschOfSecond

SpecPair == InitPair /\ [][NextPair]_vars

(***************************************************************************)
(* _generate_recommendations applied to values around its thresholds       *)
(***************************************************************************)
Margin == 1

\* the hundredths within the margin of a threshold
Near(x) == (100 * x - Margin)..(100 * x + Margin)

\* the word counts within the margin of a threshold
NearCount(n) == (n - Margin)..(n + Margin)

InitRecommend ==
    /\ AnalyzerIdle
    /\ c_score = 0
    /\ c_label = <<>>
    /\ m_args = <<>>
    /\ m_out = <<>>
    /\ s_word = <<>>
    /\ s_out = <<>>
    /\ UtilsIdle
    /\ r_args \in [avg_sentence_length : Near(1) \cup Near(20) \cup Near(25),
                    avg_word_length : Near(1) \cup Near(6) \cup Near(7),
                    flesch_score : {0, FLESCH_MAX} \cup Near(30) \cup Near(50),
                    word_count : {MIN_WORDS} \cup NearCount(100)]
    /\ r_out = <<>>
    /\ PairIdle

GenerateRecommendations ==
    /\ r_out = <<>>
    /\ r_out' = <<_generate_recommendations(r_args.avg_sentence_length,
                                            r_args.avg_word_length,
                                            r_args.flesch_score, r_args.word_count)>>
    /\ UNCHANGED <<r_args, analyzerVars, classifyVars, metricVars, syllableVars, utilVars,
                   pairVars>>

NextRecommend == GenerateRecommendations

SpecRecommend == InitRecommend /\ [][NextRecommend]_vars

(***************************************************************************)
(* Properties                                                              *)
(***************************************************************************)
BandPairs ==
    {<<DIFFICULTY_THRESHOLDS[k].level, DIFFICULTY_THRESHOLDS[k].audience>> :
        k \in 1..Len(DIFFICULTY_THRESHOLDS)}

\* C1: every result analyze returns carries the labels of one of the five
\* bands, never (undetermined, unknown).
C1_LabelsFromBands ==
    \A c \in Calls :
        frames[c].pc = "done" =>
            /\ <<frames[c].result[1].difficulty_level,
                 frames[c].result[1].target_audience>> \in BandPairs
            /\ frames[c].result[1].difficulty_level # Undetermined[1]
            /\ frames[c].result[1].target_audience # Undetermined[2]

\* C2: a score of 90.00 is classified very easy and 89.99 easy; 70, 50 and 30
\* fall into the easier of their two neighbouring bands.
C2_BandBoundaries ==
    c_label # <<>> =>
        /\ c_score = 9000 => c_label[1] = "very_easy"
        /\ c_score = 8999 => c_label[1] = "easy"
        /\ c_score = 7000 => c_label[1] = "easy"
        /\ c_score = 5000 => c_label[1] = "medium"
        /\ c_score = 3000 => c_label[1] = "hard"

AllWhitespace(t) == \A i \in 1..Len(t) : t[i] \in Whitespace

WordsOf(t) == tokenize_words(clean_text(t))

C4_BlankRaisesEmptyFirst ==
    \A c \in Calls :
        /\ (frames[c].pc \notin {"idle", "validate"} /\ AllWhitespace(frames[c].arg)) =>
                /\ frames[c].pc = "raised"
                /\ frames[c].error = EmptyTextError
                /\ frames[c].trace = <<"validate_text">>
        /\ (frames[c].pc = "raised" /\ frames[c].error = EmptyTextError) =>
                AllWhitespace(frames[c].arg)

\* a text of whitespace characters has been refused as empty
C4_Witness ==
    \E c \in Calls :
        /\ frames[c].pc = "raised"
        /\ frames[c].error = EmptyTextError
        /\ frames[c].arg # <<>>

ValidationSteps == {"validate_text", "check_words", "check_sentences"}

ComputeSteps ==
    {"_count_total_syllables", "_count_polysyllables", "flesch_reading_ease",
     "flesch_kincaid_grade", "coleman_liau_index", "automated_readability_index"}

\* C5: in every call of analyze each syllable count and metric calculator
\* runs after all three validation checks; a call whose validation failed
\* has run none of them and holds no result.
C5_ValidationBeforeMetrics ==
    \A c \in Calls :
        LET tr == frames[c].trace
        IN /\ \A i \in 1..Len(tr) :
                tr[i] \in ComputeSteps =>
                    \A v \in ValidationSteps : \E j \in 1..(i - 1) : tr[j] = v
           /\ frames[c].pc = "raised" =>
                /\ \A i \in 1..Len(tr) : tr[i] \notin ComputeSteps
                /\ frames[c].result = <<>>
                /\ frames[c].total_syllables = 0
                /\ frames[c].flesch = 0

\* a call has failed its word-count check after tokenizing a text with words
C5_Witness ==
    \E c \in Calls :
        /\ frames[c].pc = "raised"
        /\ frames[c].error[2] = "too_short"
        /\ frames[c].words # <<>>

C7_AllZeroOnZeroCounts ==
    m_out # <<>> =>
        /\ (m_out[1] # "smog_index" /\ (m_args.words = 0 \/ m_args.sentences = 0))
                => m_out[2] = Returned(0)
        /\ (m_out[1] = "smog_index" /\ m_args.sentences = 0) => m_out[2] = Returned(0)

\* C7 amended: no calculator ever divides by zero; flesch_reading_ease,
\* flesch_kincaid_grade and automated_readability_index return 0 when the
\* words or the sentences are zero, coleman_liau_index when the words are
\* zero, smog_index when the sentences are zero.
C7_ZeroGuards ==
    m_out # <<>> =>
        /\ m_out[2][1] = "returned"
        /\ (/\ m_out[1] \in {"flesch_reading_ease", "flesch_kincaid_grade",
                             "automated_readability_index"}
            /\ (m_args.words = 0 \/ m_args.sentences = 0)) => m_out[2] = Returned(0)
        /\ (m_out[1] = "coleman_liau_index" /\ m_args.words = 0) => m_out[2] = Returned(0)
        /\ (m_out[1] = "smog_index" /\ m_args.sentences = 0) => m_out[2] = Returned(0)

\* flesch_reading_ease has returned 0 for words with no sentence
C7_Witness ==
    /\ m_out = <<"flesch_reading_ease", Returned(0)>>
    /\ m_args.words > 0
    /\ m_args.sentences = 0

\* C8: compare_texts returns one entry per text, in order: success with the
\* dict of the result for a text analyze accepts, failure with the error
\* for one it refuses, whatever the names argument.
C8_OneEntryPerText ==
    batch # <<>> =>
        /\ Len(batch[3]) = Len(batch[1])
        /\ \A i \in 1..Len(batch[1]) :
                LET o == analyze(_syllable_func, batch[1][i])
                IN /\ batch[3][i][2] = (o[1] = "result")
                   /\ batch[3][i][3] =
                        IF o[1] = "result" THEN format_result_as_dict(o[2]) ELSE o[2]

\* C9: a second call of analyze with the same text on the same analyzer ends
\* as the first did: the same result, field by field, or the same error.
C9_SameTextSameResult ==
    \A c \in Calls :
        (Finished(frames[c]) /\ prev # <<>>) =>
            /\ prev[1] = frames[c].arg
            /\ prev[2] = Outcome(frames[c])

\* two calls in a row on one text have both returned a result
C9_Witness ==
    \E c \in Calls :
        /\ frames[c].pc = "done"
        /\ prev # <<>>
        /\ prev[2][1] = "result"
        /\ prev[2][2].recommendations # <<>>

\* a word string: not empty and without whitespace
IsWordString(w) == w # <<>> /\ \A i \in 1..Len(w) : w[i] \notin Whitespace

LettersOf(t, script) == Cardinality({i \in 1..Len(t) : t[i] \in Range(script)})

CyrillicCount(t) == LettersOf(t, CyrLower) + LettersOf(t, CyrUpper)

LatinCount(t) == LettersOf(t, LatinLower) + LettersOf(t, LatinUpper)

\* C11: detect_language answers 'ru' exactly when the text holds strictly
\* more Cyrillic than Latin letters and 'en' otherwise (ties, no letters and
\* the empty text included); it always returns, and the answer on the text
\* as analyze cleans it is the answer on the raw text.
C11_DetectLanguage ==
    (u_out # <<>> /\ u_out[1] \in {"detect_language", "detect_language_cleaned"}) =>
        /\ u_out[2] \in {"ru", "en"}
        /\ u_out[2] = "ru" <=> CyrillicCount(u_text) > LatinCount(u_text)

\* a tie between the two scripts, with whitespace to clean, was answered 'en'
C11_Witness ==
    /\ u_out = <<"detect_language_cleaned", "en">>
    /\ CyrillicCount(u_text) = 1
    /\ LatinCount(u_text) = 1
    /\ clean_text(u_text) # u_text

\* C12: of two valid inputs with the same syllables/words ratio, the one with
\* the larger words/sentences average never gets the larger Flesch score,
\* as returned (clamped and rounded).
C12_FleschMonotone ==
    Len(p_out) = 2 =>
        /\ p_out[1][1] = "returned"
        /\ p_out[2][1] = "returned"
        /\ ValueOf(p_out[1]) >= ValueOf(p_out[2])

\* two scores strictly inside (0, 100) that differ by the sentence length only
C12_Witness ==
    /\ Len(p_out) = 2
    /\ ValueOf(p_out[2]) > 0
    /\ ValueOf(p_out[1]) < FLESCH_MAX
    /\ ValueOf(p_out[1]) > ValueOf(p_out[2])
    /\ p_args[1].words # p_args[2].words

\* C13: however the statement groups of the calls in progress on one
\* analyzer interleave, every call is, at each of its positions, where it
\* would be had it run alone, and so returns the result or raises the error
\* it returns or raises alone; the attributes of the analyzer stay as
\* __init__ set them.
C13_CallsDoNotInterfere ==
    /\ _syllable_func = InitSyllableFunc(language)
    /\ \A c \in Calls :
            frames[c].pc # "idle" =>
                Outcome(RunFrame(frames[c], InitSyllableFunc(language)))
                    = analyze(InitSyllableFunc(language), frames[c].arg)

\* under 'auto' one call has returned the result of a Latin text while a call
\* on a Cyrillic text, which chose the other estimator, is about to count
C13_Witness ==
    \E c, d \in Calls :
        /\ language = "auto"
        /\ frames[c].pc = "done"
        /\ frames[c].syllable_counter = "count_syllables"
        /\ frames[d].pc = "counts"
        /\ frames[d].syllable_counter = "count_syllables_ru"
        /\ frames[d].words # frames[c].words

\* a word as tokenize_words yields it: letters only, at least one
IsLetterWord(w) == w # <<>> /\ \A i \in 1..Len(w) : IsLetter(w[i])

SixVowels == {"a", "e", "i", "o", "u", "y"}

\* R: the maximal runs of vowels, each counted at its last letter
MaximalVowelRuns(w) ==
    Cardinality({i \in 1..Len(w) :
                    /\ w[i] \in SixVowels
                    /\ (i = Len(w) \/ w[i + 1] \notin SixVowels)})

\* D: 1 for a final 'e' in a word of more than one run
FinalEDeduction(w) == IF w[Len(w)] = "e" /\ MaximalVowelRuns(w) > 1 THEN 1 ELSE 0

\* L: 1 for a final 'le' that follows a letter other than the six vowels
FinalLeAddition(w) ==
    IF /\ Len(w) >= 3
       /\ w[Len(w)] = "e"
       /\ w[Len(w) - 1] = "l"
       /\ w[Len(w) - 2] \notin SixVowels
    THEN 1 ELSE 0

\* C14: for every non-empty word count_syllables returns max(1, R - D + L),
\* R the maximal vowel runs of the lowercased word, D the final-e deduction,
\* L the final-le addition, each decided on the word alone.
C14_SyllableFormula ==
    (s_out # <<>> /\ s_out[1] = "count_syllables" /\ IsLetterWord(s_word)) =>
        LET w == Lower(s_word)
            expected == MaximalVowelRuns(w) - FinalEDeduction(w) + FinalLeAddition(w)
        IN s_out[2] = IF expected < 1 THEN 1 ELSE expected

\* a word that gets both corrections: 'able', two runs, minus one, plus one
C14_Witness ==
    /\ s_out = <<"count_syllables", 2>>
    /\ Lower(s_word) = <<"a", "b", "l", "e">>
    /\ s_word # Lower(s_word)

\* the estimator the configuration prescribes for a call on cleaned text t
PrescribedEstimator(t) ==
    IF language = "ru" THEN "count_syllables_ru"
    ELSE IF language = "en" THEN "count_syllables"
    ELSE IF CyrillicCount(t) > LatinCount(t) THEN "count_syllables_ru"
    ELSE "count_syllables"

Occurrences(tr, step) == Cardinality({i \in 1..Len(tr) : tr[i] = step})

\* C15: a call of analyze picks its estimator once: the Russian one under
\* 'ru', the English one under 'en' whatever the script of the text, under
\* 'auto' the one detect_language names for the cleaned text; the syllable
\* total and the polysyllable count are both taken with that estimator over
\* every word.
C15_OneEstimatorPerCall ==
    \A c \in Calls :
        LET f == frames[c]
            est == PrescribedEstimator(f.text)
        IN /\ Occurrences(f.trace, "_get_syllable_counter") <= 1
           /\ f.syllable_counter # None =>
                /\ f.syllable_counter = est
                /\ Occurrences(f.trace, "_get_syllable_counter") = 1
           /\ Occurrences(f.trace, "_count_total_syllables") = 1 =>
                /\ f.total_syllables =
                        SumSeq([i \in 1..Len(f.words) |-> ApplySyllableFunc(est, f.words[i])])
                /\ f.total_polysyllables =
                        Cardinality({i \in 1..Len(f.words) :
                                        ApplySyllableFunc(est, f.words[i]) >= 3})

\* a Cyrillic text analysed under 'en': every word got the English estimate
C15_Witness ==
    \E c \in Calls :
        /\ language = "en"
        /\ frames[c].pc = "done"
        /\ CyrillicCount(frames[c].text) > LatinCount(frames[c].text)
        /\ frames[c].total_syllables = frames[c].word_count
        /\ count_syllables_ru(frames[c].words[2]) = 3

\* the rule a message comes from: 1 sentence length, 2 word length, 3 Flesch
\* score, 4 short text, 5 the positive message
RuleOfMessage(m) ==
    CASE m[1] \in {"shorten_sentences", "sentences_longish"} -> 1
      [] m[1] \in {"simplify_vocabulary", "shorter_words"} -> 2
      [] m[1] \in {"very_hard_text", "prepared_audience"} -> 3
      [] m[1] = "short_text" -> 4
      [] OTHER -> 5

\* the kinds of the messages of a list
Kinds(recs) == {recs[i][1] : i \in 1..Len(recs)}

\* C16: the messages come in the order of the rules (sentence length, word
\* length, Flesch score, short text) whatever their severity, no rule
\* contributes two messages, and the list holds at most four.
C16_RuleOrder ==
    r_out # <<>> =>
        LET recs == r_out[1]
        IN /\ Len(recs) <= 4
           /\ \A i, j \in 1..Len(recs) :
                    i < j => RuleOfMessage(recs[i]) < RuleOfMessage(recs[j])

\* four messages, a soft one ahead of a strong one
C16_Witness ==
    /\ r_out # <<>>
    /\ Len(r_out[1]) = 4
    /\ r_out[1][1] = <<"sentences_longish">>
    /\ r_out[1][2][1] = "simplify_vocabulary"
    /\ r_out[1][3] = <<"very_hard_text">>
    /\ r_out[1][4] = <<"short_text">>

\* C17: the list is never empty; it is the positive message alone exactly
\* when no message of rules 1-4 is in it, which needs at least 100 words;
\* the positive message never comes with another one.
C17_PositiveOnlyAlone ==
    r_out # <<>> =>
        LET recs == r_out[1]
            fired == {i \in 1..Len(recs) : RuleOfMessage(recs[i]) <= 4}
        IN /\ recs # <<>>
           /\ (recs = << <<"well_balanced">> >>) <=> (fired = {})
           /\ "well_balanced" \in Kinds(recs) =>
                    (Len(recs) = 1 /\ r_args.word_count >= 100)
           /\ r_args.word_count < 100 => "short_text" \in Kinds(recs)

\* a text of exactly 100 words with nothing to report got the positive message
C17_Witness ==
    /\ r_out = << << <<"well_balanced">> >> >>
    /\ r_args.word_count = 100

\* C18 as stated: the softer messages at both ends of 20-25 and of 6-7.
C18_SoftBandsClosed ==
    r_out # <<>> =>
        LET kinds == Kinds(r_out[1])
            asl == r_args.avg_sentence_length
            awl == r_args.avg_word_length
        IN /\ "shorten_sentences" \in kinds <=> asl > 2500
           /\ "sentences_longish" \in kinds <=> (asl >= 2000 /\ asl <= 2500)
           /\ "simplify_vocabulary" \in kinds <=> awl > 700
           /\ "shorter_words" \in kinds <=> (awl >= 600 /\ awl <= 700)

\* C18 amended: the strong sentence message exactly above 25 and the softer
\* one exactly above 20 up to and including 25; the strong vocabulary
\* message exactly above 7 and the softer one exactly above 6 up to and
\* including 7.
C18_SoftBandsOpenBelow ==
    r_out # <<>> =>
        LET kinds == Kinds(r_out[1])
            asl == r_args.avg_sentence_length
            awl == r_args.avg_word_length
        IN /\ "shorten_sentences" \in kinds <=> asl > 2500
           /\ "sentences_longish" \in kinds <=> (asl > 2000 /\ asl <= 2500)
           /\ "simplify_vocabulary" \in kinds <=> awl > 700
           /\ "shorter_words" \in kinds <=> (awl > 600 /\ awl <= 700)

\* an average of exactly 20 words got no sentence message while an average
\* of exactly 7 letters got the softer vocabulary message
C18_Witness ==
    /\ r_out # <<>>
    /\ r_args.avg_sentence_length = 2000
    /\ r_args.avg_word_length = 700
    /\ "shorter_words" \in Kinds(r_out[1])
    /\ "sentences_longish" \notin Kinds(r_out[1])

\* C19 as stated: the note for every score from 30 to 50, both included.
C19_NoteBandClosed ==
    r_out # <<>> =>
        LET kinds == Kinds(r_out[1])
        IN /\ "very_hard_text" \in kinds <=> r_args.flesch_score < 3000
           /\ "prepared_audience" \in kinds <=>
                    (r_args.flesch_score >= 3000 /\ r_args.flesch_score <= 5000)

\* C19 amended: the 'very hard' warning exactly below 30 and the note
\* exactly from 30 up to but not including 50.
C19_NoteBandOpenAbove ==
    r_out # <<>> =>
        LET kinds == Kinds(r_out[1])
        IN /\ "very_hard_text" \in kinds <=> r_args.flesch_score < 3000
           /\ "prepared_audience" \in kinds <=>
                    (r_args.flesch_score >= 3000 /\ r_args.flesch_score < 5000)

\* a score of exactly 50 got neither the warning nor the note
C19_Witness ==
    /\ r_out # <<>>
    /\ r_args.flesch_score = 5000
    /\ Kinds(r_out[1]) \cap {"very_hard_text", "prepared_audience"} = {}

\* the places where an abbreviation occurs in a text
OccurrencesIn(s, abbr) == {q \in 1..Len(s) : StartsWithAt(s, q, abbr)}

\* its occurrences over the sentences returned
OccurrencesKept(sents, abbr) ==
    SumSeq([i \in 1..Len(sents) |-> Cardinality(OccurrencesIn(sents[i], abbr))])

\* C20: every occurrence of a listed abbreviation in the text is found, with
\* its periods, inside a returned sentence (no boundary was placed at one of
\* its periods), and every returned sentence is non-empty and has no
\* whitespace at either end.
C20_AbbreviationsKept ==
    (u_out # <<>> /\ u_out[1] = "tokenize_sentences") =>
        LET sents == u_out[2]
        IN /\ \A k \in 1..Len(abbreviations) :
                    OccurrencesKept(sents, abbreviations[k])
                        >= Cardinality(OccurrencesIn(u_text, abbreviations[k]))
           /\ \A i \in 1..Len(sents) :
                    /\ sents[i] # <<>>
                    /\ sents[i][1] \notin Whitespace
                    /\ sents[i][Len(sents[i])] \notin Whitespace

\* an occurrence of an abbreviation at q that stands as a token of its own:
\* no letter right before it
IsTokenAt(s, q, abbr) ==
    /\ StartsWithAt(s, q, abbr)
    /\ (q = 1 \/ ~IsLetter(s[q - 1]))

\* the terminator at j belongs to an abbreviation token of the text
InAbbreviationToken(s, j) ==
    \E k \in 1..Len(abbreviations) :
        \E q \in 1..j : IsTokenAt(s, q, abbreviations[k]) /\ j < q + Len(abbreviations[k])

\* C21: the text is cut at every '.', '!' or '?' that is not part of a
\* listed abbreviation standing as a token: no returned sentence still holds
\* such a terminator, so the period after an ordinary word that merely ends
\* with the letters of an abbreviation ends its sentence.
C21_BoundaryAtEveryTerminator ==
    (u_out # <<>> /\ u_out[1] = "tokenize_sentences") =>
        \A i \in 1..Len(u_out[2]) :
            \A j \in 1..Len(u_out[2][i]) :
                u_out[2][i][j] \in SentenceEnd => InAbbreviationToken(u_out[2][i], j)

\* the words are found one after another, without overlap, from position
\* 'from' of the text on: each at its leftmost place after the one before
RECURSIVE AppearInOrder(_, _, _)
AppearInOrder(s, words, from) ==
    IF words = <<>> THEN TRUE
    ELSE LET found == {q \in from..Len(s) : StartsWithAt(s, q, Head(words))}
         IN /\ found # {}
            /\ AppearInOrder(s, Tail(words), Minimum(found) + Len(Head(words)))

IsLowercaseLetter(ch) == ch \in Range(LatinLower) \cup Range(CyrLower)

C23_AttributesFixed ==
    /\ [](_syllable_func = InitSyllableFunc(language))
    /\ [][language' = language /\ _syllable_func' = _syllable_func]_vars
    /\ [](\A c \in Calls :
            (language = "auto" /\ frames[c].syllable_counter # None) =>
                (frames[c].syllable_counter = "count_syllables_ru"
                    <=> CyrillicCount(frames[c].text) > LatinCount(frames[c].text)))

\* an 'auto' analyzer has returned a result computed with the Russian
\* estimator and still holds no estimator of its own
C23_Witness ==
    \E c \in Calls :
        /\ language = "auto"
        /\ frames[c].pc = "done"
        /\ frames[c].syllable_counter = "count_syllables_ru"
        /\ frames[c].total_polysyllables > 0
        /\ _syllable_func = None

\* C24: the words and sentences analyze holds after tokenizing never have a
\* word without a sentence; no call raises the too-few-sentences error, so
\* a call that fails validation fails as empty or as too short.
C24_WordsImplySentences ==
    \A c \in Calls :
        LET f == frames[c]
        IN /\ (Occurrences(f.trace, "tokenize_words") = 1 /\ f.words # <<>>) =>
                    f.sentences # <<>>
           /\ f.pc = "raised" =>
                    /\ f.error # SentencesError
                    /\ f.error = EmptyTextError \/ f.error = TooShortError(f.words)
           /\ Occurrences(f.trace, "check_sentences") = 1 => f.pc # "raised"

\* a text without any terminator has passed the sentence check as one
\* sentence
C24_Witness ==
    \E c \in Calls :
        /\ frames[c].pc = "syllable_counter"
        /\ \A i \in 1..Len(frames[c].text) : frames[c].text[i] \notin SentenceEnd
        /\ Len(frames[c].sentences) = 1
        /\ Len(frames[c].words) = MIN_WORDS

\* C25: every result has at most as many sentences as words, hence an
\* average sentence length of at least 1.
C25_SentencesAtMostWords ==
    \A c \in Calls :
        frames[c].pc = "done" =>
            /\ frames[c].result[1].sentence_count <= frames[c].result[1].word_count
            /\ frames[c].result[1].avg_sentence_length >= 100

====
